---- MODULE Spec2Model ----
(***************************************************************************)
(* Model of gatt-cts-server.py: a BlueZ GATT application exposing the      *)
(* Current Time Service over D-Bus.  The state machine follows the script  *)
(* from `Server(args.notify_period).run()` through the GLib main loop,     *)
(* which serially dispatches inbound method calls, the timeout source and  *)
(* the asynchronous RegisterApplication reply.                             *)
(***************************************************************************)
EXTENDS Integers, Sequences, FiniteSets, TLC

VARIABLES
    pc,            \* position of the __main__ script
    notify_period, \* args.notify_period (None or an int)
    adapter,       \* result of find_adapter (None or an object path)
    mainloop,      \* Server.mainloop: "unset", "created", "running", "quit"
    app,           \* the constructed Application tree
    notifying,     \* CurrentTimeCharacteristic.notifying
    timers,        \* GLib timeout sources currently armed
    registerCalls, \* RegisterApplication calls made on the GATT manager
    reply,         \* asynchronous RegisterApplication reply
    clock,         \* index of the local instant datetime.now() returns
    signals,       \* PropertiesChanged signals emitted so far
    history,       \* StartNotify/StopNotify calls dispatched to the Current Time characteristic
    lastEvent      \* the step taken last (a handler run or a clock step), with its outcome

vars == <<pc, notify_period, adapter, mainloop, app, notifying, timers,
          registerCalls, reply, clock, signals, history, lastEvent>>

----------------------------------------------------------------------------
(* Bounds of the model *)

\* the last HistLen StartNotify/StopNotify calls are remembered
HistLen == 2
\* at most MaxSignals PropertiesChanged signals are emitted in a behaviour
MaxSignals == 2

----------------------------------------------------------------------------
(* Python values *)

\* None is the empty option; Some(v) a present value
None == <<>>
Some(v) == <<v>>
\* the empty dict {}
EmptyDict == [k \in {} |-> k]

BLUEZ_SERVICE_NAME == "org.bluez"
GATT_MANAGER_IFACE == "org.bluez.GattManager1"
DBUS_OM_IFACE == "org.freedesktop.DBus.ObjectManager"
DBUS_PROP_IFACE == "org.freedesktop.DBus.Properties"
GATT_SERVICE_IFACE == "org.bluez.GattService1"
GATT_CHRC_IFACE == "org.bluez.GattCharacteristic1"
GATT_DESC_IFACE == "org.bluez.GattDescriptor1"

\* the exception classes a handler of the script raises on purpose
InvalidArgsException == "org.freedesktop.DBus.Error.InvalidArgs"
NotSupportedException == "org.bluez.Error.NotSupported"
NotPermittedException == "org.bluez.Error.NotPermitted"
InvalidValueLengthException == "org.bluez.Error.InvalidValueLength"
FailedException == "org.bluez.Error.Failed"

\* outcome of a handler: a returned value or a raised exception
Return(bytes, props) ==
    [status |-> "return", error |-> "", value |-> bytes, props |-> props]
Raise(exc) ==
    [status |-> "raise", error |-> exc, value |-> <<>>, props |-> EmptyDict]

----------------------------------------------------------------------------
(* Inputs *)

\* values of --notify-period (type=int, default=None)
NotifyPeriods == {None, Some(0), Some(1)}

\* what the remote ObjectManager of org.bluez reports: path and interfaces
BusObjects == {
    <<>>,
    << [path |-> "/org/bluez", ifaces |-> {"org.bluez.AgentManager1"}] >>,
    << [path |-> "/org/bluez", ifaces |-> {"org.bluez.AgentManager1"}],
       [path |-> "/org/bluez/hci0",
        ifaces |-> {"org.bluez.Adapter1", GATT_MANAGER_IFACE}] >> }

\* the zone state the platform reports after time.tzset(): time.timezone and
\* time.altzone in seconds west of UTC, and whether DST is in force now
TimeZones == <<
    [timezone |-> 0, altzone |-> 0, isdst |-> FALSE],
    [timezone |-> 0 - 7200, altzone |-> 0 - 10800, isdst |-> FALSE],
    [timezone |-> 0 - 7200, altzone |-> 0 - 10800, isdst |-> TRUE],
    [timezone |-> 18000, altzone |-> 14400, isdst |-> FALSE],
    [timezone |-> 18000, altzone |-> 14400, isdst |-> TRUE],
    [timezone |-> 0 - 19800, altzone |-> 0 - 19800, isdst |-> FALSE],
    [timezone |-> 0 - 20700, altzone |-> 0 - 20700, isdst |-> FALSE],
    [timezone |-> 12600, altzone |-> 9000, isdst |-> TRUE],
    [timezone |-> 0 - 37800, altzone |-> 0 - 39600, isdst |-> FALSE],
    [timezone |-> 0 - 50400, altzone |-> 0 - 50400, isdst |-> FALSE],
    [timezone |-> 43200, altzone |-> 43200, isdst |-> FALSE] >>

\* a local instant: what datetime.now() returns, with the zone state then
Instant(year, month, day, hour, minute, second, microsecond, zone) ==
    [year |-> year, month |-> month, day |-> day, hour |-> hour,
     minute |-> minute, second |-> second, microsecond |-> microsecond,
     timezone |-> zone.timezone, altzone |-> zone.altzone,
     isdst |-> zone.isdst]

\* the instants the clock of a run passes, in order: a winter Sunday in a
\* UTC+2 zone with DST rules, a Friday in a UTC-5 zone during DST, the last
\* microsecond of a year in UTC
Instants == <<
    Instant(1999, 1, 3, 0, 0, 0, 0, TimeZones[2]),
    Instant(2024, 3, 15, 14, 30, 45, 500000, TimeZones[5]),
    Instant(2024, 12, 31, 23, 59, 59, 999999, TimeZones[1]) >>

\* further instants a call can come at: for each n in 0..255 the first
\* microsecond whose 1/256 fraction is n and the one before it, with the
\* other fields and the zone varied along
Samples == 1..512

SampleInstant(i) ==
    LET n == (i - 1) \div 2
        first == (n * 15625 + 3) \div 4
        us == IF (i - 1) % 2 = 1 /\ first > 0 THEN first - 1 ELSE first
    IN  Instant(1 + ((i * 41) % 9999), 1 + (i % 12), 1 + (i % 28), i % 24,
                i % 60, (i * 7) % 60, us,
                TimeZones[1 + (i % Len(TimeZones))])

\* the instant with index c
Now(c) == IF c \in DOMAIN Instants THEN Instants[c]
          ELSE SampleInstant(c - Len(Instants))

\* the options mapping of a ReadValue call
OptionsSet == {
    EmptyDict,
    "device" :> "/org/bluez/hci0/dev_00_11_22_33_44_55",
    "offset" :> "0",
    ("device" :> "/org/bluez/hci0/dev_00_11_22_33_44_55") @@ ("offset" :> "0") }

\* the interface names a GetAll call carries
InterfaceNames ==
    {GATT_SERVICE_IFACE, GATT_CHRC_IFACE, GATT_DESC_IFACE, DBUS_PROP_IFACE}

----------------------------------------------------------------------------
(* The GATT object tree *)

\* the app attribute before Application() has been constructed
NoApplication == [path |-> "", services |-> <<>>]

PathsOf(nodes) == [i \in DOMAIN nodes |-> nodes[i].path]

Service_PATH_BASE == "/org/bluez/example/service"

Service_init(index, uuid, primary) ==
    [cls |-> "Service",
     path |-> Service_PATH_BASE \o ToString(index),
     uuid |-> uuid,
     primary |-> primary,
     characteristics |-> <<>>]

\* variant: the construction index is left out of the path
Characteristic_init_no_index(cls, index, uuid, flags, service) ==
    [cls |-> cls,
     path |-> service.path \o "/char",
     uuid |-> uuid,
     service |-> service.path,
     flags |-> flags,
     descriptors |-> <<>>]

Characteristic_init(cls, index, uuid, flags, service) ==
    [cls |-> cls,
     path |-> service.path \o "/char" \o ToString(index),
     uuid |-> uuid,
     service |-> service.path,
     flags |-> flags,
     descriptors |-> <<>>]

Descriptor_init(index, uuid, flags, characteristic) ==
    [cls |-> "Descriptor",
     path |-> characteristic.path \o "/desc" \o ToString(index),
     uuid |-> uuid,
     flags |-> flags,
     chrc |-> characteristic.path]

\* variant: the new characteristic goes to the front of the list
add_characteristic_front(service, characteristic) ==
    [service EXCEPT !.characteristics = <<characteristic>> \o @]

add_characteristic(service, characteristic) ==
    [service EXCEPT !.characteristics = Append(@, characteristic)]

add_descriptor(characteristic, descriptor) ==
    [characteristic EXCEPT !.descriptors = Append(@, descriptor)]

CurrentTimeCharacteristic_init(index, service) ==
    Characteristic_init("CurrentTimeCharacteristic", index, "2a2B",
                        <<"read", "notify">>, service)

\* variant: the period is tested for truth, so a period of 0 arms nothing
timeout_add_if_truthy(kwargs) ==
    IF "notify_period" \notin DOMAIN kwargs
    THEN <<>>
    ELSE IF kwargs["notify_period"] # None /\ kwargs["notify_period"][1] # 0
         THEN << [interval |-> kwargs["notify_period"][1] * 1000,
                  callback |-> "notify_time"] >>
         ELSE <<>>

\* variant: without a period, a timer of one second is armed all the same
timeout_add_default_period(kwargs) ==
    IF "notify_period" \notin DOMAIN kwargs
    THEN << [interval |-> 1000, callback |-> "notify_time"] >>
    ELSE IF kwargs["notify_period"] # None
         THEN << [interval |-> kwargs["notify_period"][1] * 1000,
                  callback |-> "notify_time"] >>
         ELSE << [interval |-> 1000, callback |-> "notify_time"] >>

\* the timeout sources the constructor of the Current Time characteristic arms
CurrentTimeCharacteristic_timeout_add(kwargs) ==
    IF "notify_period" \notin DOMAIN kwargs
    THEN <<>>
    ELSE IF kwargs["notify_period"] # None
         THEN << [interval |-> kwargs["notify_period"][1] * 1000,
                  callback |-> "notify_time"] >>
         ELSE <<>>

LocalTimeInformationCharacteristic_init(index, service) ==
    Characteristic_init("LocalTimeInformationCharacteristic", index, "2a0f",
                        <<"read">>, service)

CurrentTimeService_init(index) ==
    LET s0 == Service_init(index, "1805", TRUE)
        s1 == add_characteristic(s0, CurrentTimeCharacteristic_init(0, s0))
    IN  add_characteristic(s1, LocalTimeInformationCharacteristic_init(1, s1))

Application_init ==
    [path |-> "/", services |-> << CurrentTimeService_init(0) >>]

\* the methods each concrete class defines itself; the others are inherited
Overrides(cls) ==
    CASE cls = "CurrentTimeCharacteristic" ->
            {"ReadValue", "StartNotify", "StopNotify"}
      [] cls = "LocalTimeInformationCharacteristic" -> {"ReadValue"}
      [] OTHER -> {}

\* the objects exported on the bus, in traversal order
Services(a) == a.services
RECURSIVE CharacteristicsFrom(_, _)
CharacteristicsFrom(svcs, i) ==
    IF i > Len(svcs) THEN <<>>
    ELSE svcs[i].characteristics \o CharacteristicsFrom(svcs, i + 1)
Characteristics(a) == CharacteristicsFrom(a.services, 1)
RECURSIVE DescriptorsFrom(_, _)
DescriptorsFrom(chrcs, i) ==
    IF i > Len(chrcs) THEN <<>>
    ELSE chrcs[i].descriptors \o DescriptorsFrom(chrcs, i + 1)
Descriptors(a) == DescriptorsFrom(Characteristics(a), 1)

Range(s) == {s[i] : i \in DOMAIN s}

----------------------------------------------------------------------------
(* Property exposition *)

Service_get_properties(self) ==
    GATT_SERVICE_IFACE :>
        [UUID |-> self.uuid,
         Primary |-> self.primary,
         Characteristics |-> PathsOf(self.characteristics)]

\* variant: the characteristic also exposes its notifying flag
Characteristic_get_properties_notifying(self) ==
    GATT_CHRC_IFACE :>
        [Service |-> self.service,
         UUID |-> self.uuid,
         Flags |-> self.flags,
         Descriptors |-> PathsOf(self.descriptors),
         Notifying |-> notifying]

Characteristic_get_properties(self) ==
    GATT_CHRC_IFACE :>
        [Service |-> self.service,
         UUID |-> self.uuid,
         Flags |-> self.flags,
         Descriptors |-> PathsOf(self.descriptors)]

Descriptor_get_properties(self) ==
    GATT_DESC_IFACE :>
        [Characteristic |-> self.chrc,
         UUID |-> self.uuid,
         Flags |-> self.flags]

Service_GetAll(self, interface) ==
    IF interface # GATT_SERVICE_IFACE
    THEN Raise(InvalidArgsException)
    ELSE Return(<<>>, Service_get_properties(self)[GATT_SERVICE_IFACE])

\* variant: the interface name is not checked
GetAll_unchecked(self, interface) ==
    Return(<<>>, Characteristic_get_properties(self)[GATT_CHRC_IFACE])

Characteristic_GetAll(self, interface) ==
    IF interface # GATT_CHRC_IFACE
    THEN Raise(InvalidArgsException)
    ELSE Return(<<>>, Characteristic_get_properties(self)[GATT_CHRC_IFACE])

Descriptor_GetAll(self, interface) ==
    IF interface # GATT_DESC_IFACE
    THEN Raise(InvalidArgsException)
    ELSE Return(<<>>, Descriptor_get_properties(self)[GATT_DESC_IFACE])

\* response[key] = value
DictSet(d, key, value) ==
    [k \in DOMAIN d \cup {key} |-> IF k = key THEN value ELSE d[k]]

RECURSIVE GMO_descriptors(_, _, _)
GMO_descriptors(response, descs, i) ==
    IF i > Len(descs) THEN response
    ELSE GMO_descriptors(
            DictSet(response, descs[i].path, Descriptor_get_properties(descs[i])),
            descs, i + 1)

RECURSIVE GMO_characteristics(_, _, _)
GMO_characteristics(response, chrcs, i) ==
    IF i > Len(chrcs) THEN response
    ELSE GMO_characteristics(
            GMO_descriptors(
                DictSet(response, chrcs[i].path,
                        Characteristic_get_properties(chrcs[i])),
                chrcs[i].descriptors, 1),
            chrcs, i + 1)

\* variant: the traversal stops at the services
RECURSIVE GMO_services_shallow(_, _, _)
GMO_services_shallow(response, svcs, i) ==
    IF i > Len(svcs) THEN response
    ELSE GMO_services_shallow(
            DictSet(response, svcs[i].path, Service_get_properties(svcs[i])),
            svcs, i + 1)

RECURSIVE GMO_services(_, _, _)
GMO_services(response, svcs, i) ==
    IF i > Len(svcs) THEN response
    ELSE GMO_services(
            GMO_characteristics(
                DictSet(response, svcs[i].path, Service_get_properties(svcs[i])),
                svcs[i].characteristics, 1),
            svcs, i + 1)

Application_GetManagedObjects(self) ==
    Return(<<>>, GMO_services(EmptyDict, self.services, 1))

----------------------------------------------------------------------------
(* Time encoders *)

\* n.to_bytes(2, 'little')
to_bytes_2_little(n) == << n % 256, (n \div 256) % 256 >>

is_leap(year) == year % 4 = 0 /\ (year % 100 # 0 \/ year % 400 = 0)

days_before_year(year) ==
    LET y == year - 1
    IN  y * 365 + (y \div 4) - (y \div 100) + (y \div 400)

days_in_month(year, month) ==
    IF month = 2 THEN (IF is_leap(year) THEN 29 ELSE 28)
    ELSE IF month \in {4, 6, 9, 11} THEN 30 ELSE 31

RECURSIVE days_before_month(_, _)
days_before_month(year, month) ==
    IF month = 1 THEN 0
    ELSE days_before_month(year, month - 1) + days_in_month(year, month - 1)

toordinal(dt) ==
    days_before_year(dt.year) + days_before_month(dt.year, dt.month) + dt.day

\* datetime.isoweekday(): Monday is 1, Sunday is 7
isoweekday(dt) ==
    IF toordinal(dt) % 7 = 0 THEN 7 ELSE toordinal(dt) % 7

\* the double nearest to 1e-6 is DoubleMicro * 2^-72, with DoubleMicro =
\* 4722366482869645 given here in base-1024 digits, lowest first
DoubleMicroDigits == <<397, 379, 523, 990, 198, 4>>

RECURSIVE Pow2(_)
Pow2(n) == IF n = 0 THEN 1 ELSE 2 * Pow2(n - 1)

\* the base-1024 digits of microsecond * DoubleMicro, lowest first
RECURSIVE ProductDigits(_, _, _)
ProductDigits(microsecond, j, carry) ==
    IF j > Len(DoubleMicroDigits)
    THEN << carry % 1024, carry \div 1024 >>
    ELSE << (microsecond * DoubleMicroDigits[j] + carry) % 1024 >> \o
         ProductDigits(microsecond, j + 1,
                       (microsecond * DoubleMicroDigits[j] + carry) \div 1024)

\* bit i of a number given by its base-1024 digits
BitOf(digits, i) == (digits[(i \div 10) + 1] \div Pow2(i % 10)) % 2

\* variant: the product microsecond * 1e-6 is cut to 53 bits, not rounded
fraction256_chopped(microsecond) ==
    (ProductDigits(microsecond, 1, 0)[7]
        + 1024 * ProductDigits(microsecond, 1, 0)[8]) \div 16

\* int((dt.microsecond * 1e-6) * 256): the product microsecond * 1e-6 is
\* rounded to 53 significant bits (to nearest, ties to even), the product by
\* 256 is exact, and int() drops the fraction: bits 64 and up of the rounded
\* product
fraction256(microsecond) ==
    LET P == ProductDigits(microsecond, 1, 0)
        bits == 0..(10 * Len(P) - 1)
        set == {i \in bits : BitOf(P, i) = 1}
        k == IF set = {} THEN 0 ELSE 1 + CHOOSE i \in set : \A h \in set : h <= i
        s == k - 53
        truncated == (P[7] + 1024 * P[8]) \div 16
        roundup == /\ s >= 1
                   /\ BitOf(P, s - 1) = 1
                   /\ \/ BitOf(P, s) = 1
                      \/ \E i \in 0..(s - 2) : BitOf(P, i) = 1
        carried == roundup /\ \A i \in s..63 : BitOf(P, i) = 1
    IN  IF carried THEN truncated + 1 ELSE truncated

current_time_bytes(dt) ==
    to_bytes_2_little(dt.year) \o
    << dt.month, dt.day, dt.hour, dt.minute, dt.second,
       isoweekday(dt), fraction256(dt.microsecond), 1 >>

\* int(a / b) on timedeltas: true division, truncated toward zero
int_div(a, b) == IF a >= 0 THEN a \div b ELSE 0 - ((0 - a) \div b)

time_zone_offset_15min(tz) == int_div(0 - tz.timezone, 900)

dst_offset_15_min(tz) ==
    int_div((0 - tz.altzone) - (0 - tz.timezone), 900)

\* [Byte(tz15.to_bytes(1, 'little', signed=True)[0]), Byte(dst15)]; both
\* conversions raise outside their range
local_time_information_bytes(tz) ==
    IF time_zone_offset_15min(tz) \notin -128..127
    THEN Raise("org.freedesktop.DBus.Python.OverflowError")
    ELSE IF dst_offset_15_min(tz) \notin 0..255
    THEN Raise("org.freedesktop.DBus.Python.ValueError")
    ELSE Return(<< time_zone_offset_15min(tz) % 256, dst_offset_15_min(tz) >>,
                EmptyDict)

----------------------------------------------------------------------------
(* Characteristic operations *)

\* the error name the bus reports for a KeyError escaping a handler
KeyError == "org.freedesktop.DBus.Python.KeyError"

Characteristic_ReadValue(self, options) == Raise(NotSupportedException)

\* variant: the default WriteValue accepts the write
WriteValue_accepting(self, value, options) == Return(<<>>, EmptyDict)

Characteristic_WriteValue(self, value, options) == Raise(NotSupportedException)

Characteristic_StartNotify(self) == Raise(NotSupportedException)

Characteristic_StopNotify(self) == Raise(NotSupportedException)

Descriptor_ReadValue(self, options) == Raise(NotSupportedException)

Descriptor_WriteValue(self, value, options) == Raise(NotSupportedException)

\* the PropertiesChanged signal of the characteristic at path
PropertiesChanged(path, interface, changed, invalidated) ==
    [path |-> path, interface |-> interface, changed |-> changed,
     invalidated |-> invalidated]

\* variant: the payload is the one encoded at the first instant
notify_current_time_cached(self, is_notifying, dt) ==
    IF ~is_notifying
    THEN <<>>
    ELSE << [path |-> self.path, interface |-> GATT_CHRC_IFACE,
             changed |-> "Value" :> current_time_bytes(Instants[1]),
             invalidated |-> <<>>] >>

\* the signals notify_current_time emits
notify_current_time(self, is_notifying, dt) ==
    IF ~is_notifying
    THEN <<>>
    ELSE << PropertiesChanged(self.path, GATT_CHRC_IFACE,
                              "Value" :> current_time_bytes(dt), <<>>) >>

\* variant: the callback asks GLib to drop the source while notifying is off
notify_time_one_shot(self, is_notifying, dt) ==
    IF ~is_notifying
    THEN [ret |-> FALSE, emitted |-> <<>>]
    ELSE [ret |-> TRUE, emitted |-> notify_current_time(self, is_notifying, dt)]

\* the timer callback: what it returns to GLib and the signals it emits
notify_time(self, is_notifying, dt) ==
    IF ~is_notifying
    THEN [ret |-> TRUE, emitted |-> <<>>]
    ELSE [ret |-> TRUE, emitted |-> notify_current_time(self, is_notifying, dt)]

CurrentTimeCharacteristic_ReadValue(self, options, dt) ==
    IF "device" \notin DOMAIN options
    THEN Raise(KeyError)
    ELSE Return(current_time_bytes(dt), EmptyDict)

\* variant: StartNotify fails when notifying is already on
StartNotify_rejecting(is_notifying) ==
    IF is_notifying
    THEN [notifying |-> is_notifying, result |-> Raise(FailedException)]
    ELSE [notifying |-> TRUE, result |-> Return(<<>>, EmptyDict)]

\* variant: a StartNotify while notifying is on fails and clears the flag
StartNotify_failing_clears(is_notifying) ==
    IF is_notifying
    THEN [notifying |-> FALSE, result |-> Raise(FailedException)]
    ELSE [notifying |-> TRUE, result |-> Return(<<>>, EmptyDict)]

\* variant: StopNotify never clears the flag
StopNotify_keeping(is_notifying) ==
    [notifying |-> is_notifying, result |-> Return(<<>>, EmptyDict)]

\* StartNotify/StopNotify: the new value of self.notifying and the outcome
CurrentTimeCharacteristic_StartNotify(is_notifying) ==
    IF is_notifying
    THEN [notifying |-> is_notifying, result |-> Return(<<>>, EmptyDict)]
    ELSE [notifying |-> TRUE, result |-> Return(<<>>, EmptyDict)]

CurrentTimeCharacteristic_StopNotify(is_notifying) ==
    IF ~is_notifying
    THEN [notifying |-> is_notifying, result |-> Return(<<>>, EmptyDict)]
    ELSE [notifying |-> FALSE, result |-> Return(<<>>, EmptyDict)]

LocalTimeInformationCharacteristic_ReadValue(self, options, tz) ==
    IF local_time_information_bytes(tz).status = "raise"
    THEN local_time_information_bytes(tz)
    ELSE IF "device" \notin DOMAIN options
    THEN Raise(KeyError)
    ELSE local_time_information_bytes(tz)

----------------------------------------------------------------------------
(* Startup *)

RECURSIVE find_adapter_from(_, _)
find_adapter_from(objects, i) ==
    IF i > Len(objects) THEN None
    ELSE IF GATT_MANAGER_IFACE \in objects[i].ifaces THEN Some(objects[i].path)
    ELSE find_adapter_from(objects, i + 1)

find_adapter(objects) == find_adapter_from(objects, 1)

\* the record of a handler run: what was called, on which object, its outcome
\* and the number of signals it emitted
Event(op, path, interface, options, result, emitted) ==
    [op |-> op, path |-> path, interface |-> interface, options |-> options,
     status |-> result.status, error |-> result.error, value |-> result.value,
     props |-> result.props, emitted |-> emitted]

NoEvent == Event("", "", "", EmptyDict, Return(<<>>, EmptyDict), 0)

\* keep the last HistLen calls
Remember(h, op) ==
    IF Len(h) < HistLen THEN Append(h, op) ELSE Append(Tail(h), op)

Init ==
    /\ pc = "Server"
    /\ notify_period \in NotifyPeriods
    /\ adapter = None
    /\ mainloop = "unset"
    /\ app = NoApplication
    /\ notifying = FALSE
    /\ timers = <<>>
    /\ registerCalls = <<>>
    /\ reply = "none"
    /\ clock = 1
    /\ signals = <<>>
    /\ history = <<>>
    /\ lastEvent = NoEvent

\* Server.__init__: look for the GATT manager; build the tree and register it
Server_init ==
    /\ pc = "Server"
    /\ \E objects \in BusObjects :
         /\ adapter' = find_adapter(objects)
         /\ IF find_adapter(objects) = None
            THEN /\ UNCHANGED <<mainloop, app, notifying, timers,
                                registerCalls, reply>>
            ELSE /\ app' = Application_init
                 /\ notifying' = FALSE
                 /\ timers' = timers \o CurrentTimeCharacteristic_timeout_add(
                                            "notify_period" :> notify_period)
                 /\ mainloop' = "created"
                 /\ registerCalls' =
                        Append(registerCalls,
                               [path |-> Application_init.path,
                                options |-> EmptyDict])
                 /\ reply' = "pending"
    /\ pc' = "run"
    /\ lastEvent' = Event("Server.__init__", "", "", EmptyDict,
                          Return(<<>>, EmptyDict), 0)
    /\ UNCHANGED <<notify_period, clock, signals, history>>

\* Server.run: self.mainloop.run(); the attribute is missing when __init__
\* returned early
Server_run ==
    /\ pc = "run"
    /\ IF mainloop = "unset"
       THEN /\ pc' = "crashed"
            /\ lastEvent' = Event("Server.run", "", "", EmptyDict,
                                  Raise("AttributeError"), 0)
            /\ UNCHANGED mainloop
       ELSE /\ pc' = "mainloop"
            /\ mainloop' = "running"
            /\ lastEvent' = Event("Server.run", "", "", EmptyDict,
                                  Return(<<>>, EmptyDict), 0)
    /\ UNCHANGED <<notify_period, adapter, app, notifying, timers,
                   registerCalls, reply, clock, signals, history>>

\* the main loop is running and dispatches events
Dispatching == pc = "mainloop" /\ mainloop = "running"

register_app_cb ==
    /\ Dispatching
    /\ reply = "pending"
    /\ reply' = "success"
    /\ lastEvent' = Event("register_app_cb", "", "", EmptyDict,
                          Return(<<>>, EmptyDict), 0)
    /\ UNCHANGED <<pc, notify_period, adapter, mainloop, app, notifying,
                   timers, registerCalls, clock, signals, history>>

\* variant: the error callback does not stop the loop
mainloop_kept(loop) == loop

\* the value of mainloop after self.mainloop.quit()
mainloop_quit(loop) == "quit"

register_app_error_cb ==
    /\ Dispatching
    /\ reply = "pending"
    /\ reply' = "error"
    /\ mainloop' = mainloop_quit(mainloop)
    /\ pc' = IF mainloop_quit(mainloop) = "quit" THEN "done" ELSE pc
    /\ lastEvent' = Event("register_app_error_cb", "", "", EmptyDict,
                          Return(<<>>, EmptyDict), 0)
    /\ UNCHANGED <<notify_period, adapter, app, notifying, timers,
                   registerCalls, clock, signals, history>>

\* the wall clock moves on to the next instant
ClockAdvance ==
    /\ Dispatching
    /\ clock < Len(Instants)
    /\ clock' = clock + 1
    /\ lastEvent' = Event("clock", "", "", EmptyDict, Return(<<>>, EmptyDict), 0)
    /\ UNCHANGED <<pc, notify_period, adapter, mainloop, app, notifying,
                   timers, registerCalls, reply, signals, history>>

\* the timeout source fires: GLib calls notify_time and drops the source
\* when the callback returns False
TimerTick ==
    /\ Dispatching
    /\ \E i \in DOMAIN timers :
         LET self == app.services[1].characteristics[1]
             r == notify_time(self, notifying, Now(clock))
         IN  /\ Len(signals) + Len(r.emitted) <= MaxSignals
             /\ signals' = signals \o r.emitted
             /\ timers' = IF r.ret THEN timers
                          ELSE SubSeq(timers, 1, i - 1) \o
                               SubSeq(timers, i + 1, Len(timers))
             /\ lastEvent' = Event(timers[i].callback, self.path, "", EmptyDict,
                                   Return(<<>>, EmptyDict), Len(r.emitted))
    /\ UNCHANGED <<pc, notify_period, adapter, mainloop, app, notifying,
                   registerCalls, reply, clock, history>>

\* what an inbound method call leaves alone, besides lastEvent
RpcFrame == UNCHANGED <<pc, notify_period, adapter, mainloop, app, timers,
                        registerCalls, reply, clock, signals>>

GetManagedObjects ==
    /\ Dispatching
    /\ lastEvent' = Event("GetManagedObjects", app.path, "", EmptyDict,
                          Application_GetManagedObjects(app), 0)
    /\ RpcFrame
    /\ UNCHANGED <<notifying, history>>

ServiceGetAll ==
    /\ Dispatching
    /\ \E self \in Range(Services(app)), interface \in InterfaceNames :
         lastEvent' = Event("GetAll", self.path, interface, EmptyDict,
                            Service_GetAll(self, interface), 0)
    /\ RpcFrame
    /\ UNCHANGED <<notifying, history>>

CharacteristicGetAll ==
    /\ Dispatching
    /\ \E self \in Range(Characteristics(app)), interface \in InterfaceNames :
         lastEvent' = Event("GetAll", self.path, interface, EmptyDict,
                            Characteristic_GetAll(self, interface), 0)
    /\ RpcFrame
    /\ UNCHANGED <<notifying, history>>

CurrentTimeReadValue ==
    /\ Dispatching
    /\ \E self \in Range(Characteristics(app)), options \in OptionsSet :
         /\ self.cls = "CurrentTimeCharacteristic"
         /\ lastEvent' = Event("ReadValue", self.path, "", options,
                               CurrentTimeCharacteristic_ReadValue(
                                   self, options, Now(clock)), 0)
    /\ RpcFrame
    /\ UNCHANGED <<notifying, history>>

LocalTimeInformationReadValue ==
    /\ Dispatching
    /\ \E self \in Range(Characteristics(app)), options \in OptionsSet :
         /\ self.cls = "LocalTimeInformationCharacteristic"
         /\ lastEvent' = Event("ReadValue", self.path, "", options,
                               LocalTimeInformationCharacteristic_ReadValue(
                                   self, options, Now(clock)), 0)
    /\ RpcFrame
    /\ UNCHANGED <<notifying, history>>

\* WriteValue is inherited by every characteristic of the tree
WriteValue ==
    /\ Dispatching
    /\ \E self \in Range(Characteristics(app)), options \in OptionsSet :
         /\ "WriteValue" \notin Overrides(self.cls)
         /\ lastEvent' = Event("WriteValue", self.path, "", options,
                               Characteristic_WriteValue(self, <<>>, options), 0)
    /\ RpcFrame
    /\ UNCHANGED <<notifying, history>>

\* StartNotify/StopNotify on a characteristic that inherits them
DefaultStartNotify ==
    /\ Dispatching
    /\ \E self \in Range(Characteristics(app)) :
         /\ "StartNotify" \notin Overrides(self.cls)
         /\ lastEvent' = Event("StartNotify", self.path, "", EmptyDict,
                               Characteristic_StartNotify(self), 0)
    /\ RpcFrame
    /\ UNCHANGED <<notifying, history>>

DefaultStopNotify ==
    /\ Dispatching
    /\ \E self \in Range(Characteristics(app)) :
         /\ "StopNotify" \notin Overrides(self.cls)
         /\ lastEvent' = Event("StopNotify", self.path, "", EmptyDict,
                               Characteristic_StopNotify(self), 0)
    /\ RpcFrame
    /\ UNCHANGED <<notifying, history>>

StartNotify ==
    /\ Dispatching
    /\ \E self \in Range(Characteristics(app)) :
         /\ self.cls = "CurrentTimeCharacteristic"
         /\ notifying' = CurrentTimeCharacteristic_StartNotify(notifying).notifying
         /\ lastEvent' = Event("StartNotify", self.path, "", EmptyDict,
                CurrentTimeCharacteristic_StartNotify(notifying).result, 0)
    /\ history' = Remember(history, "StartNotify")
    /\ RpcFrame

StopNotify ==
    /\ Dispatching
    /\ \E self \in Range(Characteristics(app)) :
         /\ self.cls = "CurrentTimeCharacteristic"
         /\ notifying' = CurrentTimeCharacteristic_StopNotify(notifying).notifying
         /\ lastEvent' = Event("StopNotify", self.path, "", EmptyDict,
                CurrentTimeCharacteristic_StopNotify(notifying).result, 0)
    /\ history' = Remember(history, "StopNotify")
    /\ RpcFrame

Next ==
    \/ Server_init
    \/ Server_run
    \/ register_app_cb
    \/ register_app_error_cb
    \/ ClockAdvance
    \/ TimerTick
    \/ GetManagedObjects
    \/ ServiceGetAll
    \/ CharacteristicGetAll
    \/ CurrentTimeReadValue
    \/ LocalTimeInformationReadValue
    \/ WriteValue
    \/ DefaultStartNotify
    \/ DefaultStopNotify
    \/ StartNotify
    \/ StopNotify

Spec == Init /\ [][Next]_vars

\* The two ReadValue handlers over a wide range of instants: the server is
\* registered and running, and the call comes at any of the instants
InitEncode ==
    /\ pc = "mainloop"
    /\ notify_period \in NotifyPeriods
    /\ adapter = Some("/org/bluez/hci0")
    /\ mainloop = "running"
    /\ app = Application_init
    /\ notifying = FALSE
    /\ timers = CurrentTimeCharacteristic_timeout_add(
                    "notify_period" :> notify_period)
    /\ registerCalls = << [path |-> Application_init.path,
                           options |-> EmptyDict] >>
    /\ reply = "success"
    /\ clock \in 1..(Len(Instants) + Cardinality(Samples))
    /\ signals = <<>>
    /\ history = <<>>
    /\ lastEvent = Event("register_app_cb", "", "", EmptyDict,
                         Return(<<>>, EmptyDict), 0)

NextEncode ==
    \/ CurrentTimeReadValue
    \/ LocalTimeInformationReadValue

SpecEncode == InitEncode /\ [][NextEncode]_vars

----------------------------------------------------------------------------
(* Properties *)

\* the two characteristics of the tree
CurrentTime == Application_init.services[1].characteristics[1]
LocalTimeInformation == Application_init.services[1].characteristics[2]

\* C1: notifying starts off and is on exactly when the most recent
\* StartNotify/StopNotify call on the Current Time characteristic was a
\* StartNotify; with no call made it is off.
C1_NotifyingFollowsLastCall ==
    /\ notifying \in BOOLEAN
    /\ history = <<>> => ~notifying
    /\ history # <<>> =>
         (notifying <=> history[Len(history)] = "StartNotify")

C1_Witness ==
    /\ history = <<"StartNotify", "StopNotify">>
    /\ ~notifying
    /\ lastEvent.op = "StopNotify"
    /\ lastEvent.path = CurrentTime.path

\* C2: a StartNotify while notifying is on, and a StopNotify while it is off,
\* return without error, leave notifying as it was and emit no signal.
C2_IdempotentNotify ==
    [][ /\ ( /\ lastEvent'.op = "StartNotify"
             /\ lastEvent'.path = CurrentTime.path
             /\ notifying )
          => ( /\ notifying'
               /\ lastEvent'.status = "return"
               /\ lastEvent'.error = ""
               /\ signals' = signals )
        /\ ( /\ lastEvent'.op = "StopNotify"
             /\ lastEvent'.path = CurrentTime.path
             /\ ~notifying )
          => ( /\ ~notifying'
               /\ lastEvent'.status = "return"
               /\ lastEvent'.error = ""
               /\ signals' = signals ) ]_vars

C2_Witness ==
    /\ history = <<"StartNotify", "StartNotify">>
    /\ notifying
    /\ lastEvent.op = "StartNotify"
    /\ lastEvent.path = CurrentTime.path
    /\ lastEvent.status = "return"
    /\ signals = <<>>

\* C3: a timer tick while notifying is off emits nothing; a tick while it is
\* on emits exactly one PropertiesChanged signal whose Value is the payload
\* encoded from the clock at that moment; no step emits while notifying is off.
C3_BroadcastGated ==
    [][ /\ (lastEvent'.op = "notify_time" /\ ~notifying)
          => (signals' = signals /\ lastEvent'.emitted = 0)
        /\ (lastEvent'.op = "notify_time" /\ notifying)
          => ( /\ lastEvent'.emitted = 1
               /\ signals' = Append(signals,
                    [path |-> CurrentTime.path,
                     interface |-> GATT_CHRC_IFACE,
                     changed |-> "Value" :> current_time_bytes(Instants[clock]),
                     invalidated |-> <<>>]) )
        /\ (signals' # signals) => notifying ]_vars

C3_Witness ==
    /\ lastEvent.op = "notify_time"
    /\ lastEvent.emitted = 1
    /\ clock = 2
    /\ Len(signals) = 1
    /\ signals[1].changed["Value"] = <<232, 7, 3, 15, 14, 30, 45, 5, 128, 1>>

\* C4: the timer callback always answers "keep armed": an armed timer stays
\* armed over every step, and every tick taken while notifying is on
\* broadcasts, also after a StopNotify followed by a StartNotify.
C4_TimerStaysArmed ==
    [][ /\ (timers # <<>>) => (timers' = timers)
        /\ (lastEvent'.op = "notify_time" /\ notifying)
          => Len(signals') = Len(signals) + 1 ]_vars

C4_Witness ==
    /\ history = <<"StopNotify", "StartNotify">>
    /\ lastEvent.op = "notify_time"
    /\ lastEvent.emitted = 1
    /\ Len(signals) = 2
    /\ Len(timers) = 1

\* C5: once the tree is constructed, exactly one recurring timer calling
\* notify_time is armed when the notify period is not None, and none when it
\* is None or absent; the number of armed timers never changes afterwards.
C5_TimerCount ==
    /\ CurrentTimeCharacteristic_timeout_add(EmptyDict) = <<>>
    /\ app = NoApplication => timers = <<>>
    /\ app # NoApplication =>
         IF notify_period # None
         THEN timers = << [interval |-> notify_period[1] * 1000,
                           callback |-> "notify_time"] >>
         ELSE timers = <<>>

C5_Witness ==
    /\ notify_period = Some(0)
    /\ Len(timers) = 1
    /\ lastEvent.op = "notify_time"
    /\ history # <<>>

\* the error kinds of the taxonomy
Taxonomy ==
    {InvalidArgsException, NotSupportedException, NotPermittedException,
     InvalidValueLengthException, FailedException}

RpcOps ==
    {"ReadValue", "WriteValue", "StartNotify", "StopNotify", "GetAll",
     "GetManagedObjects"}

IsBytes(value, n) ==
    Len(value) = n /\ \A i \in DOMAIN value : value[i] \in 0..255

\* C6: with no GATT manager on the bus, RegisterApplication is not called,
\* the startup sequence raises no unhandled error and the main loop is not
\* entered.
C6_NoAdapterNoCrash ==
    (pc # "Server" /\ adapter = None) =>
        /\ registerCalls = <<>>
        /\ mainloop # "running"
        /\ pc # "crashed"
        /\ lastEvent.status # "raise"

C8_RpcValidOrTaxonomyError ==
    lastEvent.op \in RpcOps =>
        \/ lastEvent.status = "raise" /\ lastEvent.error \in Taxonomy
        \/ /\ lastEvent.status = "return"
           /\ (lastEvent.op = "ReadValue" /\ lastEvent.path = CurrentTime.path)
                => IsBytes(lastEvent.value, 10)
           /\ (lastEvent.op = "ReadValue"
               /\ lastEvent.path = LocalTimeInformation.path)
                => IsBytes(lastEvent.value, 2)

\* the class of the characteristic exported at a path
ClassAt(path) ==
    IF path = CurrentTime.path THEN CurrentTime.cls
    ELSE IF path = LocalTimeInformation.path THEN LocalTimeInformation.cls
    ELSE "Characteristic"

\* C9: ReadValue, WriteValue, StartNotify and StopNotify on a characteristic
\* or descriptor that does not override them fail with NotSupported:
\* WriteValue on Current Time; WriteValue, StartNotify and StopNotify on
\* Local Time Information; the inherited bodies in every case.
C9_DefaultNotSupported ==
    /\ ( /\ lastEvent.op \in {"ReadValue", "WriteValue", "StartNotify",
                              "StopNotify"}
         /\ lastEvent.op \notin Overrides(ClassAt(lastEvent.path)) )
       => (lastEvent.status = "raise" /\ lastEvent.error = NotSupportedException)
    /\ (lastEvent.op = "WriteValue" /\ lastEvent.path = CurrentTime.path)
       => lastEvent.error = NotSupportedException
    /\ ( /\ lastEvent.op \in {"WriteValue", "StartNotify", "StopNotify"}
         /\ lastEvent.path = LocalTimeInformation.path )
       => lastEvent.error = NotSupportedException
    /\ \A options \in OptionsSet :
         /\ Characteristic_ReadValue(CurrentTime, options)
              = Raise(NotSupportedException)
         /\ Descriptor_ReadValue(
                Descriptor_init(0, "2901", <<"read">>, CurrentTime), options)
              = Raise(NotSupportedException)
         /\ Descriptor_WriteValue(
                Descriptor_init(0, "2901", <<"read">>, CurrentTime), <<>>,
                options)
              = Raise(NotSupportedException)

C9_Witness ==
    /\ lastEvent.op = "StartNotify"
    /\ lastEvent.path = LocalTimeInformation.path
    /\ lastEvent.error = NotSupportedException
    /\ notifying

\* the interface a node of the tree declares, and its property mapping
DeclaredInterface(path) ==
    IF path = Application_init.services[1].path THEN GATT_SERVICE_IFACE
    ELSE GATT_CHRC_IFACE

ExpectedProperties(path) ==
    IF path = Application_init.services[1].path
    THEN [UUID |-> "1805", Primary |-> TRUE,
          Characteristics |-> << "/org/bluez/example/service0/char0",
                                 "/org/bluez/example/service0/char1" >>]
    ELSE IF path = CurrentTime.path
    THEN [Service |-> "/org/bluez/example/service0", UUID |-> "2a2B",
          Flags |-> <<"read", "notify">>, Descriptors |-> <<>>]
    ELSE [Service |-> "/org/bluez/example/service0", UUID |-> "2a0f",
          Flags |-> <<"read">>, Descriptors |-> <<>>]

\* C10: GetAll with an interface name other than the node's declared one
\* fails with InvalidArgs and changes no state; with the declared one it
\* returns the node's property mapping; the same holds of the Descriptor
\* class.
C10_GetAllInterfaceCheck ==
    [][ /\ lastEvent'.op = "GetAll" =>
             IF lastEvent'.interface # DeclaredInterface(lastEvent'.path)
             THEN /\ lastEvent'.status = "raise"
                  /\ lastEvent'.error = InvalidArgsException
                  /\ UNCHANGED <<pc, notify_period, adapter, mainloop, app,
                                 notifying, timers, registerCalls, reply,
                                 clock, signals, history>>
             ELSE /\ lastEvent'.status = "return"
                  /\ lastEvent'.props = ExpectedProperties(lastEvent'.path)
        /\ \A interface \in InterfaceNames :
             LET d == Descriptor_init(0, "2901", <<"read">>, CurrentTime)
             IN  Descriptor_GetAll(d, interface) =
                   IF interface # GATT_DESC_IFACE
                   THEN Raise(InvalidArgsException)
                   ELSE Return(<<>>, [Characteristic |-> CurrentTime.path,
                                      UUID |-> "2901", Flags |-> <<"read">>])
      ]_vars

C10_Witness ==
    /\ lastEvent.op = "GetAll"
    /\ lastEvent.path = CurrentTime.path
    /\ lastEvent.interface = GATT_SERVICE_IFACE
    /\ lastEvent.error = InvalidArgsException
    /\ notifying

\* the object paths of the services, characteristics and descriptors of a tree
NodePaths(a) ==
    Range(PathsOf(Services(a))) \cup Range(PathsOf(Characteristics(a)))
        \cup Range(PathsOf(Descriptors(a)))

NodeCount(a) ==
    Len(Services(a)) + Len(Characteristics(a)) + Len(Descriptors(a))

\* C11: the key set of GetManagedObjects() is the set of the object paths of
\* all services, characteristics and descriptors, one key per node, each key
\* holding that node's own properties, and the Application root is no key.
C11_ManagedObjectsKeys ==
    lastEvent.op = "GetManagedObjects" =>
        /\ lastEvent.status = "return"
        /\ DOMAIN lastEvent.props = NodePaths(app)
        /\ DOMAIN lastEvent.props =
             {"/org/bluez/example/service0",
              "/org/bluez/example/service0/char0",
              "/org/bluez/example/service0/char1"}
        /\ Cardinality(DOMAIN lastEvent.props) = NodeCount(app)
        /\ app.path \notin DOMAIN lastEvent.props
        /\ \A i \in DOMAIN Services(app) :
             lastEvent.props[Services(app)[i].path] =
                 Service_get_properties(Services(app)[i])
        /\ \A i \in DOMAIN Characteristics(app) :
             lastEvent.props[Characteristics(app)[i].path] =
                 Characteristic_get_properties(Characteristics(app)[i])

C11_Witness ==
    /\ lastEvent.op = "GetManagedObjects"
    /\ lastEvent.path = "/"
    /\ Cardinality(DOMAIN lastEvent.props) = 3
    /\ reply = "pending"

\* C12: the object paths of a constructed tree are pairwise distinct, each is
\* built from the parent's path and the construction index, and the tree,
\* with its paths, is the same after every step.
C12_PathsDistinctStable ==
    [][ /\ app' # NoApplication =>
             /\ Cardinality(NodePaths(app')) = NodeCount(app')
             /\ \A i \in DOMAIN Services(app') :
                  /\ Services(app')[i].path =
                        "/org/bluez/example/service" \o ToString(i - 1)
                  /\ \A j \in DOMAIN Services(app')[i].characteristics :
                       Services(app')[i].characteristics[j].path =
                           Services(app')[i].path \o "/char" \o ToString(j - 1)
        /\ app # NoApplication => app' = app ]_vars

C12_Witness ==
    /\ app # NoApplication
    /\ Cardinality(NodePaths(app)) = 3
    /\ lastEvent.op = "notify_time"
    /\ notifying
    /\ history = <<"StartNotify">>

\* the day of the week of a date by the year-shift rule: 0 is Sunday
MonthShift == <<0, 3, 2, 5, 0, 3, 5, 1, 4, 6, 2, 4>>

DayOfWeek(year, month, day) ==
    LET y == IF month < 3 THEN year - 1 ELSE year
    IN  (y + (y \div 4) - (y \div 100) + (y \div 400) + MonthShift[month] + day) % 7

IsoDayOfWeek(year, month, day) ==
    IF DayOfWeek(year, month, day) = 0 THEN 7 ELSE DayOfWeek(year, month, day)

\* C13: ReadValue on Current Time returns 10 bytes: the year low byte then
\* high byte, month, day, hour, minute, second, ISO day of week (1 Monday to
\* 7 Sunday), floor(microseconds * 256 / 1000000) within 0..255, and 1; for
\* 2024-03-15T14:30:45.500000 it is E8 07 03 0F 0E 1E 2D 05 80 01.
C13_CurrentTimeBytes ==
    ( /\ lastEvent.op = "ReadValue"
      /\ lastEvent.path = CurrentTime.path
      /\ lastEvent.status = "return" )
    => LET dt == Now(clock)
           v == lastEvent.value
       IN  /\ Len(v) = 10
           /\ v = << dt.year % 256, dt.year \div 256, dt.month, dt.day,
                     dt.hour, dt.minute, dt.second,
                     IsoDayOfWeek(dt.year, dt.month, dt.day),
                     (dt.microsecond * 256) \div 1000000, 1 >>
           /\ v[1] + 256 * v[2] = dt.year
           /\ v[8] \in 1..7
           /\ v[9] \in 0..255
           /\ \A i \in DOMAIN v : v[i] \in 0..255
           /\ ( /\ dt.year = 2024 /\ dt.month = 3 /\ dt.day = 15
                /\ dt.hour = 14 /\ dt.minute = 30 /\ dt.second = 45
                /\ dt.microsecond = 500000 )
              => v = <<232, 7, 3, 15, 14, 30, 45, 5, 128, 1>>

C13_Witness ==
    /\ lastEvent.op = "ReadValue"
    /\ lastEvent.path = CurrentTime.path
    /\ lastEvent.status = "return"
    /\ Now(clock).microsecond = 500000
    /\ lastEvent.value = <<232, 7, 3, 15, 14, 30, 45, 5, 128, 1>>

\* the offset from UTC in force at an instant, in seconds east of UTC
CurrentUtcOffset(dt) == IF dt.isdst THEN 0 - dt.altzone ELSE 0 - dt.timezone

\* C14: ReadValue on Local Time Information returns 2 bytes: the base UTC
\* offset in 15-minute units as a signed byte, and (current offset - base
\* offset) in 15-minute units, so 0 whenever DST is not in force now; a
\* UTC+2 zone gives 8, 0 outside DST and 8, 4 during a one-hour DST.
C14_LocalTimeInformationBytes ==
    ( /\ lastEvent.op = "ReadValue"
      /\ lastEvent.path = LocalTimeInformation.path
      /\ lastEvent.status = "return" )
    => LET dt == Now(clock)
           v == lastEvent.value
       IN  /\ Len(v) = 2
           /\ v[1] = int_div(0 - dt.timezone, 900) % 256
           /\ v[2] = int_div(CurrentUtcOffset(dt) - (0 - dt.timezone), 900)
           /\ (dt.timezone = 0 - 7200 /\ ~dt.isdst) => v = <<8, 0>>
           /\ (dt.timezone = 0 - 7200 /\ dt.altzone = 0 - 10800 /\ dt.isdst)
                => v = <<8, 4>>

\* C15: notifying changes only in a StartNotify or StopNotify call on the
\* Current Time characteristic that returns; reads, writes, exposition
\* queries, timer ticks, the registration replies, calls on other nodes and
\* every failing call leave it as it was.
C15_NotifyingFrame ==
    [][ /\ notifying' # notifying =>
             /\ lastEvent'.op \in {"StartNotify", "StopNotify"}
             /\ lastEvent'.path = CurrentTime.path
             /\ lastEvent'.status = "return"
        /\ lastEvent'.op \in {"ReadValue", "WriteValue", "GetAll",
                              "GetManagedObjects", "notify_time",
                              "register_app_cb", "register_app_error_cb",
                              "clock"}
             => notifying' = notifying
        /\ lastEvent'.status = "raise" => notifying' = notifying
        /\ lastEvent'.path # CurrentTime.path => notifying' = notifying ]_vars

C15_Witness ==
    /\ lastEvent.op = "WriteValue"
    /\ lastEvent.path = CurrentTime.path
    /\ lastEvent.status = "raise"
    /\ notifying
    /\ history = <<"StartNotify">>
    /\ Len(signals) = 1

\* the operations the capability flags of a characteristic advertise
Advertised(flags) ==
    (IF "read" \in Range(flags) THEN {"ReadValue"} ELSE {})
    \cup (IF "write" \in Range(flags) THEN {"WriteValue"} ELSE {})
    \cup (IF "notify" \in Range(flags) THEN {"StartNotify", "StopNotify"} ELSE {})

FlagsAt(path) ==
    IF path = CurrentTime.path THEN CurrentTime.flags
    ELSE LocalTimeInformation.flags

\* C16: each characteristic succeeds on exactly the operations its flags
\* advertise and fails with NotSupported on the others: Current Time (read,
\* notify) succeeds on ReadValue, StartNotify, StopNotify; Local Time
\* Information (read) succeeds on ReadValue only.
C16_FlagsMatchOperations ==
    ( /\ lastEvent.op \in {"ReadValue", "WriteValue", "StartNotify", "StopNotify"}
      /\ lastEvent.path \in {CurrentTime.path, LocalTimeInformation.path} )
    => /\ CurrentTime.flags = <<"read", "notify">>
       /\ LocalTimeInformation.flags = <<"read">>
       /\ IF lastEvent.op \in Advertised(FlagsAt(lastEvent.path))
          THEN lastEvent.status = "return"
          ELSE lastEvent.status = "raise"
               /\ lastEvent.error = NotSupportedException

\* the response of GetManagedObjects for the constructed tree
ExpectedManagedObjects ==
    ("/org/bluez/example/service0" :>
        (GATT_SERVICE_IFACE :>
            ExpectedProperties("/org/bluez/example/service0")))
    @@ ("/org/bluez/example/service0/char0" :>
        (GATT_CHRC_IFACE :>
            ExpectedProperties("/org/bluez/example/service0/char0")))
    @@ ("/org/bluez/example/service0/char1" :>
        (GATT_CHRC_IFACE :>
            ExpectedProperties("/org/bluez/example/service0/char1")))

NotifyingKeys == {"Notifying", "notifying"}

\* C17: what GetAll and GetManagedObjects return is fixed by the tree alone:
\* it is the same whatever the value of notifying, and no property mapping
\* has a key for notifying.
C17_NotifyingNotExposed ==
    /\ (lastEvent.op = "GetAll" /\ lastEvent.status = "return") =>
         /\ lastEvent.props = ExpectedProperties(lastEvent.path)
         /\ DOMAIN lastEvent.props \cap NotifyingKeys = {}
    /\ lastEvent.op = "GetManagedObjects" =>
         /\ lastEvent.props = ExpectedManagedObjects
         /\ \A path \in DOMAIN lastEvent.props :
              \A interface \in DOMAIN lastEvent.props[path] :
                 DOMAIN lastEvent.props[path][interface] \cap NotifyingKeys = {}

C17_Witness ==
    /\ lastEvent.op = "GetManagedObjects"
    /\ lastEvent.props = ExpectedManagedObjects
    /\ notifying
    /\ history = <<"StopNotify", "StartNotify">>

\* C18: when no notify period is configured, no timer is armed and no
\* PropertiesChanged signal is emitted in any reachable state, whatever calls
\* the central makes and even while notifying is on.
C18_NoPeriodNoBroadcast ==
    notify_period = None =>
        /\ timers = <<>>
        /\ signals = <<>>
        /\ lastEvent.emitted = 0
        /\ lastEvent.op # "notify_time"

C18_Witness ==
    /\ notify_period = None
    /\ notifying
    /\ clock > 1
    /\ history = <<"StartNotify", "StartNotify">>
    /\ lastEvent.op = "ReadValue"
    /\ lastEvent.path = CurrentTime.path
    /\ lastEvent.status = "return"
    /\ signals = <<>>

\* the paths of a GetManagedObjects response that carry the interface
PathsWith(response, interface) ==
    {p \in DOMAIN response : interface \in DOMAIN response[p]}

\* C19: a returning GetAll(I) on a node equals GetManagedObjects()[path][I];
\* in a GetManagedObjects response a characteristic path is in a service's
\* Characteristics list exactly when that characteristic's Service is the
\* service's path (likewise Descriptors and a descriptor's Characteristic);
\* and the lists are in construction order: Current Time (char0) first, then
\* Local Time Information (char1).
C19_ExpositionConsistent ==
    /\ (lastEvent.op = "GetAll" /\ lastEvent.status = "return") =>
         lastEvent.props =
             Application_GetManagedObjects(app).props[lastEvent.path][lastEvent.interface]
    /\ lastEvent.op = "GetManagedObjects" =>
         LET r == lastEvent.props
             svcs == PathsWith(r, GATT_SERVICE_IFACE)
             chrcs == PathsWith(r, GATT_CHRC_IFACE)
             descs == PathsWith(r, GATT_DESC_IFACE)
         IN  /\ \A s \in svcs : \A p \in chrcs :
                  (p \in Range(r[s][GATT_SERVICE_IFACE].Characteristics))
                      <=> (r[p][GATT_CHRC_IFACE].Service = s)
             /\ \A c \in chrcs : \A d \in descs :
                  (d \in Range(r[c][GATT_CHRC_IFACE].Descriptors))
                      <=> (r[d][GATT_DESC_IFACE].Characteristic = c)
             /\ \A s \in svcs :
                  LET list == r[s][GATT_SERVICE_IFACE].Characteristics
                  IN  /\ \A i \in DOMAIN list :
                           list[i] = s \o "/char" \o ToString(i - 1)
                      /\ Len(list) = 2
                      /\ r[list[1]][GATT_CHRC_IFACE].UUID = "2a2B"
                      /\ r[list[2]][GATT_CHRC_IFACE].UUID = "2a0f"

C19_Witness ==
    /\ lastEvent.op = "GetAll"
    /\ lastEvent.status = "return"
    /\ lastEvent.path = "/org/bluez/example/service0"
    /\ lastEvent.interface = GATT_SERVICE_IFACE
    /\ lastEvent.props.Characteristics =
           << "/org/bluez/example/service0/char0",
              "/org/bluez/example/service0/char1" >>
    /\ lastEvent.props =
           Application_GetManagedObjects(app).props[lastEvent.path][GATT_SERVICE_IFACE]

====
